---- MODULE Spec2Model ----
(***************************************************************************)
(* Model of network_cost_calculator.NetworkCostCalculator: the rate-card   *)
(* mapping built by __init__, calculate_route_cost, calculate_total_cost   *)
(* (worker-pool tasks, gather, sequential pass) and process_graph.         *)
(*                                                                         *)
(* Python values are tagged tuples: <<"int", n>>, <<"str", s>>, <<"None">>;*)
(* a raised exception is <<"raise", class>>.  Rate-card names are          *)
(* sequences of one-character strings, so that lower() and replace() act   *)
(* character by character; all other strings are TLA+ strings.             *)
(***************************************************************************)
EXTENDS Integers, Sequences, FiniteSets, TLC

VARIABLES
    nodes,       \* self.graph.nodes: node id -> attribute mapping
    edges,       \* self.graph.edges(data=True), in iteration order
    raw_cards,   \* the list load_rate_cards() handed to __init__
    rate_cards,  \* self.rate_cards: sequence of <<key, record>>, insertion order
    pc,          \* "idle", or "workers" while the pool tasks of a call run
    caller,      \* which entry point awaits calculate_total_cost
    cur,         \* rate_card_name of the calculate_total_cost in flight
    tasks,       \* per route: Pending, or what its pool task produced
    first_exc,   \* the exception gather() took from the first failed task
    out_of_order,\* in the latest gather, a task finished while the task of an
                 \* earlier route was still pending
    evals,       \* calculate_route_cost invocations of the call in flight
    pg_i,        \* process_graph: position in self.rate_cards.keys()
    pg_results,  \* process_graph: its results dict
    ret          \* the outcome of the last completed entry-point call

vars == <<nodes, edges, raw_cards, rate_cards, pc, caller, cur, tasks, first_exc, out_of_order,
          evals, pg_i, pg_results, ret>>

\* Largest number of edges of a graph, and of raw rate-card records loaded.
MaxEdges == 3
MaxCards == 2

-----------------------------------------------------------------------------
(* Python values *)

PyNone == <<"None">>
PyInt(n) == <<"int", n>>
PyStr(s) == <<"str", s>>
Raised(cls) == <<"raise", cls>>
Pending == <<"pending">>

IsInt(v) == v[1] = "int"
IsRaised(v) == v[1] = "raise"

EmptyDict == [k \in {} |-> 0]

DictSet(d, k, v) == [x \in (DOMAIN d) \cup {k} |-> IF x = k THEN v ELSE d[x]]

\* results = other, where the code merges
DictUpdateReplaces(d, other) == other

\* dict.update(other)
DictUpdate(d, other) ==
    [x \in (DOMAIN d) \cup (DOMAIN other) |->
        IF x \in DOMAIN other THEN other[x] ELSE d[x]]

\* a + b; an exception raised while evaluating an operand propagates
PyAdd(a, b) ==
    IF IsRaised(a) THEN a
    ELSE IF IsRaised(b) THEN b
    ELSE IF IsInt(a) /\ IsInt(b) THEN PyInt(a[2] + b[2])
    ELSE IF a[1] = "str" /\ b[1] = "str" THEN PyStr(a[2] \o b[2])
    ELSE Raised("TypeError")

\* a * b for the operands that reach the product of calculate_route_cost:
\* a is an int or None (edge_data.get("length")), b is an int
PyMul(a, b) ==
    IF IsInt(a) /\ IsInt(b) THEN PyInt(a[2] * b[2])
    ELSE Raised("TypeError")

\* str(x) as an f-string formats it: a str is itself, None is "None"
Format(v) == IF v = PyNone THEN "None" ELSE v[2]

-----------------------------------------------------------------------------
(* Rate-card names *)

LowerChar(c) ==
    CASE c = "R" -> "r"
      [] c = "A" -> "a"
      [] c = "B" -> "b"
      [] OTHER -> c

\* name.lower().replace(" ", "_")
NormalizeName(name) ==
    [i \in 1..Len(name) |->
        IF LowerChar(name[i]) = " " THEN "_" ELSE LowerChar(name[i])]

RECURSIVE Join(_)
Join(s) == IF s = <<>> THEN "" ELSE Head(s) \o Join(Tail(s))

NameRA == <<"R", " ", "A">>
Name_ra == <<"r", "_", "a">>
NameRB == <<"R", " ", "B">>

\* The raw records load_rate_cards can return (the "rate_cards" list of the
\* JSON file): the two cards of the tests, and a card that has no trench
\* price and whose name is already normalized.
CardA ==
    ("name" :> PyStr(NameRA)) @@ ("Cabinet" :> PyInt(1000))
    @@ ("Trench/m (verge)" :> PyInt(50)) @@ ("Trench/m (road)" :> PyInt(100))
    @@ ("Chamber" :> PyInt(200)) @@ ("Pot" :> PyInt(100))

CardB ==
    ("name" :> PyStr(NameRB)) @@ ("Cabinet" :> PyInt(1200))
    @@ ("Trench/m (verge)" :> PyInt(40)) @@ ("Trench/m (road)" :> PyInt(80))
    @@ ("Chamber" :> PyInt(200)) @@ ("Pot" :> PyInt(20))

CardC ==
    ("name" :> PyStr(Name_ra)) @@ ("Cabinet" :> PyInt(7)) @@ ("Duct" :> PyInt(5))

RawCardPool == {CardA, CardB, CardC}

\* The names a caller passes to calculate_total_cost.
ReqNames == {NameRA, Name_ra, NormalizeName(NameRB), <<"x">>}

\* a mapping that keeps the first record of a key, where the code keeps the last
RECURSIVE BuildRateCardsKeepsFirst(_, _)
BuildRateCardsKeepsFirst(acc, raw) ==
    IF raw = <<>> THEN acc
    ELSE LET key == NormalizeName(Head(raw)["name"][2])
         IN  IF \E i \in 1..Len(acc) : acc[i][1] = key
             THEN BuildRateCardsKeepsFirst(acc, Tail(raw))
             ELSE BuildRateCardsKeepsFirst(Append(acc, <<key, Head(raw)>>),
                                          Tail(raw))

\* The dict comprehension of __init__ over the raw list: a later record with
\* the same key replaces the value and keeps the key's position.
RECURSIVE BuildRateCards(_, _)
BuildRateCards(acc, raw) ==
    IF raw = <<>> THEN acc
    ELSE LET key == NormalizeName(Head(raw)["name"][2])
             hit == {i \in 1..Len(acc) : acc[i][1] = key}
         IN  IF hit = {}
             THEN BuildRateCards(Append(acc, <<key, Head(raw)>>), Tail(raw))
             ELSE BuildRateCards(
                      [i \in 1..Len(acc) |->
                          IF i \in hit THEN <<key, Head(raw)>> ELSE acc[i]],
                      Tail(raw))

Keys(cards) == {cards[i][1] : i \in 1..Len(cards)}

\* cards[name], for name in Keys(cards)
Lookup(cards, name) ==
    cards[CHOOSE i \in 1..Len(cards) : cards[i][1] = name][2]

\* self.rate_cards.get(name) is truthy
Found(cards, name) ==
    /\ name \in Keys(cards)
    /\ DOMAIN Lookup(cards, name) # {}

-----------------------------------------------------------------------------
(* The graph *)

\* Node ids with their attribute mappings.  "A", "B" and their types are the
\* graph of the tests; "A-" and "-B" are ids that hold a dash; "A-" has no
\* type attribute; the type of "N" is the string "name"; "C" has no edge.
NodeAttrs ==
    ("A" :> [type |-> "Cabinet"]) @@ ("B" :> [type |-> "Pot"])
    @@ ("A-" :> EmptyDict) @@ ("-B" :> [type |-> "Duct"])
    @@ ("N" :> [type |-> "name"]) @@ ("C" :> [type |-> "Chamber"])

Full(len, mat) == ("length" :> len) @@ ("material" :> mat)
NoLength(mat) == ("material" :> mat)
NoMaterial(len) == ("length" :> len)

EdgePool ==
    { <<"A", "B", Full(50, "verge")>>,
      <<"A", "B", NoLength("verge")>>,
      <<"A-", "B", Full(3, "road")>>,
      <<"A-", "B", NoMaterial(3)>>,
      <<"A", "-B", Full(2, "sand")>>,
      <<"B", "N", Full(50, "verge")>> }

\* An nx.Graph holds at most one edge per unordered pair of nodes.
SimpleGraph(es) ==
    \A i, j \in 1..Len(es) :
        i # j => {es[i][1], es[i][2]} # {es[j][1], es[j][2]}

Graphs ==
    {es \in UNION {[1..n -> EdgePool] : n \in 0..MaxEdges} : SimpleGraph(es)}

RawCardLists ==
    {cs \in UNION {[1..n -> RawCardPool] : n \in 0..MaxCards} :
        \A i, j \in 1..Len(cs) : i # j => cs[i] # cs[j]}

-----------------------------------------------------------------------------
(* The cost engine *)

\* self.graph.nodes[node].get("type", "")
get_node_type(ns, node) ==
    IF "type" \in DOMAIN ns[node] THEN ns[node]["type"] ELSE ""

\* rate_card[node_type], where the code defaults to 0
get_node_price_strict(rate_card, node_type) ==
    IF node_type \in DOMAIN rate_card
    THEN rate_card[node_type]
    ELSE Raised("KeyError")

\* rate_card.get(node_type, 0)
get_node_price(rate_card, node_type) ==
    IF node_type \in DOMAIN rate_card THEN rate_card[node_type] ELSE PyInt(0)

\* edge_data.get(key)
EdgeGet(edge_data, key) ==
    IF key \notin DOMAIN edge_data THEN PyNone
    ELSE IF key = "length" THEN PyInt(edge_data[key])
    ELSE PyStr(edge_data[key])

\* f"Trench/m ({edge_data.get('material')})"
TrenchKey(edge_data) ==
    "Trench/m (" \o Format(EdgeGet(edge_data, "material")) \o ")"

TrenchRate(rate_card, edge_data) ==
    IF TrenchKey(edge_data) \in DOMAIN rate_card
    THEN rate_card[TrenchKey(edge_data)]
    ELSE PyInt(0)

calculate_route_cost(ns, rate_card, route) ==
    LET start_node_price == get_node_price(rate_card, get_node_type(ns, route[1]))
        end_node_price == get_node_price(rate_card, get_node_type(ns, route[2]))
    IN  PyAdd(PyAdd(start_node_price,
                    PyMul(EdgeGet(route[3], "length"),
                          TrenchRate(rate_card, route[3]))),
              end_node_price)

\* a sum that leaves out the first task's cost
RECURSIVE PySumSkipsFirst(_)
PySumSkipsFirst(vals) ==
    IF Len(vals) <= 1 THEN PyInt(0)
    ELSE PyAdd(PySumSkipsFirst(SubSeq(vals, 1, Len(vals) - 1)), vals[Len(vals)])

\* a reduction without its initial value, which has no result over no cost
RECURSIVE PySumNoInitial(_)
PySumNoInitial(vals) ==
    IF vals = <<>> THEN Raised("TypeError")
    ELSE IF Len(vals) = 1 THEN vals[1]
    ELSE PyAdd(PySumNoInitial(SubSeq(vals, 1, Len(vals) - 1)), vals[Len(vals)])

\* sum(route_costs)
RECURSIVE PySum(_)
PySum(vals) ==
    IF vals = <<>> THEN PyInt(0)
    ELSE PyAdd(PySum(SubSeq(vals, 1, Len(vals) - 1)), vals[Len(vals)])

RouteKey(route) == "route_" \o route[1] \o "--" \o route[2]
ResultsKey(name) == "rate_card_" \o Join(name)
TotalKey(name) == ResultsKey(name) \o "_routes_total"

\* The state of the sequential pass: the exception raised so far (if any),
\* the results dict, and the number of calculate_route_cost invocations.
PassState(exc, results, n) == [exc |-> exc, results |-> results, n |-> n]

\* edge_data.get(...) for the record too, where the code indexes edge_data
add_route_to_results_lenient(results, results_key, route, route_cost) ==
    LET edge_data == route[3]
        base == IF results_key \in DOMAIN results
                THEN results
                ELSE DictSet(results, results_key, EmptyDict)
    IN  [exc |-> "",
         results |->
             DictSet(base, results_key,
                 DictSet(base[results_key], RouteKey(route),
                     [length |-> IF "length" \in DOMAIN edge_data
                                 THEN edge_data["length"] ELSE 0,
                      material |-> IF "material" \in DOMAIN edge_data
                                   THEN edge_data["material"] ELSE "None",
                      cost |-> route_cost]))]

add_route_to_results(results, results_key, route, route_cost) ==
    LET edge_data == route[3]
        base == IF results_key \in DOMAIN results
                THEN results
                ELSE DictSet(results, results_key, EmptyDict)
    IN  IF "length" \notin DOMAIN edge_data \/ "material" \notin DOMAIN edge_data
        THEN [exc |-> "KeyError", results |-> base]
        ELSE [exc |-> "",
              results |->
                  DictSet(base, results_key,
                      DictSet(base[results_key], RouteKey(route),
                          [length |-> edge_data["length"],
                           material |-> edge_data["material"],
                           cost |-> route_cost]))]

\* for route in self.get_routes(): calculate_route_cost, add_route_to_results
RECURSIVE SequentialPass(_, _, _, _, _)
SequentialPass(ns, rate_card, routes, results_key, st) ==
    IF routes = <<>> \/ st.exc # "" THEN st
    ELSE LET route_cost == calculate_route_cost(ns, rate_card, Head(routes))
             added == add_route_to_results(st.results, results_key,
                                           Head(routes), route_cost)
         IN  IF IsRaised(route_cost)
             THEN PassState(route_cost[2], st.results, st.n + 1)
             ELSE SequentialPass(ns, rate_card, Tail(routes), results_key,
                      PassState(added.exc, added.results, st.n + 1))

\* What an entry point hands to its caller.
Returned(val) == [kind |-> "return", val |-> val, exc |-> ""]
Raise(cls) == [kind |-> "raise", val |-> EmptyDict, exc |-> cls]
ReturnedNone == [kind |-> "none", val |-> EmptyDict, exc |-> ""]
NoCall == [kind |-> "", val |-> EmptyDict, exc |-> ""]

\* calculate_total_cost from the gather on, once every pool task is done:
\* the outcome and the calculate_route_cost invocations of the second pass.
TotalCostFinish(ns, routes, cards, name, done, exc) ==
    LET results_key == ResultsKey(name)
        total_cost == PySum(done)
        pass == SequentialPass(ns, Lookup(cards, name), routes, results_key,
                    PassState("", DictSet(EmptyDict, results_key, EmptyDict), 0))
    IN  IF exc # ""
        THEN [out |-> Raise(exc), n |-> 0]
        ELSE IF pass.exc # ""
        THEN [out |-> Raise(pass.exc), n |-> pass.n]
        ELSE [out |-> Returned(DictSet(pass.results, results_key,
                         DictSet(pass.results[results_key], TotalKey(name),
                                 total_cost))),
              n |-> pass.n]

-----------------------------------------------------------------------------
(* The calls *)

Completed(op, name, out, n, logged, again) ==
    [op |-> op, name |-> name, out |-> out, evals |-> n, logged |-> logged,
     again |-> again]

AllPending == [i \in 1..Len(edges) |-> Pending]

AllDone == \A i \in 1..Len(tasks) : tasks[i] # Pending

Idle ==
    /\ pc' = "idle"
    /\ caller' = ""
    /\ cur' = <<>>
    /\ tasks' = <<>>
    /\ first_exc' = ""
    /\ evals' = 0
    /\ pg_i' = 0
    /\ pg_results' = EmptyDict

\* __init__: the graph and the rate cards as the loaders deliver them.
Init ==
    /\ nodes = NodeAttrs
    /\ edges \in Graphs
    /\ raw_cards \in RawCardLists
    /\ rate_cards = BuildRateCards(<<>>, raw_cards)
    /\ pc = "idle"
    /\ caller = ""
    /\ cur = <<>>
    /\ tasks = <<>>
    /\ first_exc = ""
    /\ out_of_order = FALSE
    /\ evals = 0
    /\ pg_i = 0
    /\ pg_results = EmptyDict
    /\ ret = Completed("", <<>>, NoCall, 0, FALSE, FALSE)

\* an unknown name answered with the empty results dict, where the code raises
TotalCostNotFoundReturnsEmpty(name) ==
    /\ pc = "idle"
    /\ ~Found(rate_cards, name)
    /\ ret' = Completed("total", name, Returned(EmptyDict), 0, FALSE,
                        ret.op = "total" /\ ret.name = name)
    /\ UNCHANGED <<nodes, edges, raw_cards, rate_cards, pc, caller, cur, tasks, first_exc,
                   out_of_order, evals, pg_i, pg_results>>

\* calculate_total_cost(name), lines 238-240: no such rate card.
TotalCostNotFound(name) ==
    /\ pc = "idle"
    /\ ~Found(rate_cards, name)
    /\ ret' = Completed("total", name, Raise("ValueError"), 0, FALSE,
                        ret.op = "total" /\ ret.name = name)
    /\ UNCHANGED <<nodes, edges, raw_cards, rate_cards, pc, caller, cur, tasks, first_exc,
                   out_of_order, evals, pg_i, pg_results>>

\* calculate_total_cost(name), lines 238-256: one pool task per route.
TotalCostSubmit(name) ==
    /\ pc = "idle"
    /\ Found(rate_cards, name)
    /\ pc' = "workers"
    /\ caller' = "total"
    /\ cur' = name
    /\ tasks' = AllPending
    /\ first_exc' = ""
    /\ out_of_order' = FALSE
    /\ evals' = 0
    /\ UNCHANGED <<nodes, edges, raw_cards, rate_cards, pg_i, pg_results, ret>>

\* A pool thread runs calculate_route_cost for route i; the tasks finish in
\* any order, and gather() keeps the exception of the first that fails.
RunTask(i) ==
    /\ pc = "workers"
    /\ tasks[i] = Pending
    /\ LET cost == calculate_route_cost(nodes, Lookup(rate_cards, cur), edges[i])
       IN  /\ tasks' = [tasks EXCEPT ![i] = cost]
           /\ first_exc' = IF IsRaised(cost) /\ first_exc = ""
                           THEN cost[2] ELSE first_exc
    /\ out_of_order' = (out_of_order \/ \E j \in 1..(i - 1) : tasks[j] = Pending)
    /\ evals' = evals + 1
    /\ UNCHANGED <<nodes, edges, raw_cards, rate_cards, pc, caller, cur, pg_i, pg_results,
                   ret>>

\* a total kept on the instance and added to by every call, where the code
\* sums afresh
TotalCostReturnAccumulates ==
    /\ pc = "workers"
    /\ caller = "total"
    /\ AllDone
    /\ LET fin == TotalCostFinish(nodes, edges, rate_cards, cur, tasks, first_exc)
           key == ResultsKey(cur)
           kept == IF ret.op = "total" /\ ret.out.kind = "return"
                   THEN ret.out.val[ResultsKey(ret.name)][TotalKey(ret.name)]
                   ELSE PyInt(0)
           out == IF fin.out.kind # "return" THEN fin.out
                  ELSE Returned(DictSet(fin.out.val, key,
                           DictSet(fin.out.val[key], TotalKey(cur),
                                   PyAdd(kept, fin.out.val[key][TotalKey(cur)]))))
       IN  ret' = Completed("total", cur, out, evals + fin.n, FALSE,
                            ret.op = "total" /\ ret.name = cur)
    /\ Idle
    /\ UNCHANGED <<nodes, edges, raw_cards, rate_cards, out_of_order>>

\* each route cost written into the edge's attribute mapping of the graph
TotalCostReturnWritesGraph ==
    /\ pc = "workers"
    /\ caller = "total"
    /\ AllDone
    /\ LET fin == TotalCostFinish(nodes, edges, rate_cards, cur, tasks, first_exc)
       IN  ret' = Completed("total", cur, fin.out, evals + fin.n, FALSE,
                            ret.op = "total" /\ ret.name = cur)
    /\ Idle
    /\ edges' = [i \in 1..Len(edges) |->
                    <<edges[i][1], edges[i][2],
                      DictSet(edges[i][3], "cost", tasks[i])>>]
    /\ UNCHANGED <<nodes, raw_cards, rate_cards, out_of_order>>

\* the sum taken over the tasks finished so far, without awaiting the rest
TotalCostReturnEarly ==
    /\ pc = "workers"
    /\ caller = "total"
    /\ LET finished == SelectSeq(tasks, LAMBDA t : t # Pending)
           fin == TotalCostFinish(nodes, edges, rate_cards, cur, finished, first_exc)
       IN  ret' = Completed("total", cur, fin.out, evals + fin.n, FALSE,
                            ret.op = "total" /\ ret.name = cur)
    /\ Idle
    /\ UNCHANGED <<nodes, edges, raw_cards, rate_cards, out_of_order>>

\* calculate_total_cost, lines 259-272, awaited by an outside caller.
TotalCostReturn ==
    /\ pc = "workers"
    /\ caller = "total"
    /\ AllDone
    /\ LET fin == TotalCostFinish(nodes, edges, rate_cards, cur, tasks, first_exc)
       IN  ret' = Completed("total", cur, fin.out, evals + fin.n, FALSE,
                            ret.op = "total" /\ ret.name = cur)
    /\ Idle
    /\ UNCHANGED <<nodes, edges, raw_cards, rate_cards, out_of_order>>

\* process_graph over no rate card: lines 324-332 with an empty loop.
ProcessGraphEmpty ==
    /\ pc = "idle"
    /\ Len(rate_cards) = 0
    /\ ret' = Completed("process", <<>>, Returned(EmptyDict), 0, FALSE,
                        ret.op = "total" /\ ret.out.kind = "return")
    /\ UNCHANGED <<nodes, edges, raw_cards, rate_cards, pc, caller, cur, tasks, first_exc,
                   out_of_order, evals, pg_i, pg_results>>

\* process_graph, lines 324-328: the first rate card's calculate_total_cost.
ProcessGraphStart ==
    /\ pc = "idle"
    /\ Len(rate_cards) > 0
    /\ Found(rate_cards, rate_cards[1][1])
    /\ pc' = "workers"
    /\ caller' = "process"
    /\ cur' = rate_cards[1][1]
    /\ tasks' = AllPending
    /\ first_exc' = ""
    /\ out_of_order' = FALSE
    /\ evals' = 0
    /\ pg_i' = 1
    /\ pg_results' = EmptyDict
    /\ UNCHANGED <<nodes, edges, raw_cards, rate_cards, ret>>

\* process_graph, lines 328-329 and the next turn of the loop.
ProcessGraphNext ==
    /\ pc = "workers"
    /\ caller = "process"
    /\ AllDone
    /\ pg_i < Len(rate_cards)
    /\ LET fin == TotalCostFinish(nodes, edges, rate_cards, cur, tasks, first_exc)
       IN  /\ fin.out.kind = "return"
           /\ pg_results' = DictUpdate(pg_results, fin.out.val)
           /\ evals' = evals + fin.n
    /\ Found(rate_cards, rate_cards[pg_i + 1][1])
    /\ pg_i' = pg_i + 1
    /\ cur' = rate_cards[pg_i + 1][1]
    /\ tasks' = AllPending
    /\ first_exc' = ""
    /\ out_of_order' = FALSE
    /\ UNCHANGED <<nodes, edges, raw_cards, rate_cards, pc, caller, ret>>

\* process_graph, lines 329-332: the last rate card is done.
ProcessGraphReturn ==
    /\ pc = "workers"
    /\ caller = "process"
    /\ AllDone
    /\ pg_i = Len(rate_cards)
    /\ LET fin == TotalCostFinish(nodes, edges, rate_cards, cur, tasks, first_exc)
       IN  /\ fin.out.kind = "return"
           /\ ret' = Completed("process", <<>>,
                          Returned(DictUpdate(pg_results, fin.out.val)),
                          evals + fin.n, FALSE,
                          ret.op = "total" /\ ret.out.kind = "return")
    /\ Idle
    /\ UNCHANGED <<nodes, edges, raw_cards, rate_cards, out_of_order>>

\* process_graph, lines 333-334: calculate_total_cost raised; the error is
\* logged and the function ends without a return statement.
ProcessGraphExcept ==
    /\ pc = "workers"
    /\ caller = "process"
    /\ AllDone
    /\ LET fin == TotalCostFinish(nodes, edges, rate_cards, cur, tasks, first_exc)
       IN  /\ fin.out.kind = "raise"
           /\ ret' = Completed("process", <<>>, ReturnedNone, evals + fin.n,
                               TRUE,
                               ret.op = "total" /\ ret.out.kind = "return")
    /\ Idle
    /\ UNCHANGED <<nodes, edges, raw_cards, rate_cards, out_of_order>>

Next ==
    \/ \E name \in ReqNames : TotalCostNotFound(name)
    \/ \E name \in ReqNames : TotalCostSubmit(name)
    \/ \E i \in 1..Len(tasks) : RunTask(i)
    \/ TotalCostReturn
    \/ ProcessGraphEmpty
    \/ ProcessGraphStart
    \/ ProcessGraphNext
    \/ ProcessGraphReturn
    \/ ProcessGraphExcept

Spec == Init /\ [][Next]_vars

-----------------------------------------------------------------------------
(* What the claims speak of *)

WellFormed(route) == {"length", "material"} \subseteq DOMAIN route[3]

TypeOf(node) == IF "type" \in DOMAIN nodes[node] THEN nodes[node]["type"] ELSE ""

\* A rate-card entry, an absent key being priced 0.
PriceOrZero(r, key) == IF key \in DOMAIN r THEN r[key] ELSE PyInt(0)

\* price(type(start)) + L * r["Trench/m (m)"] + price(type(end)), for a route
\* that has a length and a material and whose three prices are numbers.
FormulaCost(r, route) ==
    PriceOrZero(r, TypeOf(route[1]))[2]
    + route[3]["length"]
      * PriceOrZero(r, "Trench/m (" \o route[3]["material"] \o ")")[2]
    + PriceOrZero(r, TypeOf(route[2]))[2]

NumericPrices(r, route) ==
    /\ IsInt(PriceOrZero(r, TypeOf(route[1])))
    /\ IsInt(PriceOrZero(r, TypeOf(route[2])))

\* The routes of the graph that rate card r prices without an error.
Priceable(r) ==
    \A i \in 1..Len(edges) : WellFormed(edges[i]) /\ NumericPrices(r, edges[i])

RECURSIVE SumFormulaCost(_, _)
SumFormulaCost(r, n) ==
    IF n = 0 THEN 0 ELSE SumFormulaCost(r, n - 1) + FormulaCost(r, edges[n])

TotalReturned == ret.op = "total" /\ ret.out.kind = "return"

\* The fragment of a returned calculate_total_cost, and its route entries.
Fragment == ret.out.val[ResultsKey(ret.name)]
RouteEntries == (DOMAIN Fragment) \ {TotalKey(ret.name)}

\* C1: while the pool tasks of a call run, every finished task over a route
\* with a length and a material holds price(type(start)) + L * trench price
\* + price(type(end)), a node type or trench key that the rate card lacks
\* counting 0 and raising nothing (a node without a type has type "").
C1_RouteCostFormula ==
    pc = "workers" =>
        \A i \in 1..Len(tasks) :
            ( /\ tasks[i] # Pending
              /\ WellFormed(edges[i])
              /\ NumericPrices(Lookup(rate_cards, cur), edges[i]) )
            => tasks[i] = PyInt(FormulaCost(Lookup(rate_cards, cur), edges[i]))

\* C1 witness: a finished task over a route whose end-node type and trench
\* key are both absent from the rate card, priced at the start node alone.
C1_Witness ==
    /\ pc = "workers"
    /\ \E i \in 1..Len(tasks) :
          /\ tasks[i] # Pending
          /\ WellFormed(edges[i])
          /\ TypeOf(edges[i][2]) \notin DOMAIN Lookup(rate_cards, cur)
          /\ TrenchKey(edges[i][3]) \notin DOMAIN Lookup(rate_cards, cur)
          /\ edges[i][3]["length"] > 0
          /\ tasks[i] = PyInt(1000)

\* C2: a returned calculate_total_cost(n) is a mapping with the one key
\* "rate_card_<n>", whose routes_total is the sum of the route costs over
\* the edges, each once; and it does return for a loaded n when every route
\* can be priced.
C2_TotalIsSumOverEdges ==
    /\ TotalReturned =>
          /\ DOMAIN ret.out.val = {ResultsKey(ret.name)}
          /\ TotalKey(ret.name) \in DOMAIN Fragment
          /\ Fragment[TotalKey(ret.name)] =
                 PyInt(SumFormulaCost(Lookup(rate_cards, ret.name), Len(edges)))
    /\ ( /\ ret.op = "total"
         /\ ret.name \in Keys(rate_cards)
         /\ Priceable(Lookup(rate_cards, ret.name)) )
       => ret.out.kind = "return"

\* C2 witness: a returned total over two edges that both cost something.
C2_Witness ==
    /\ TotalReturned
    /\ Len(edges) >= 2
    /\ \A i \in 1..Len(edges) :
          FormulaCost(Lookup(rate_cards, ret.name), edges[i]) > 0

RECURSIVE SumEntryCosts(_)
SumEntryCosts(keys) ==
    IF keys = {} THEN 0
    ELSE LET k == CHOOSE x \in keys : TRUE
         IN  Fragment[k].cost[2] + SumEntryCosts(keys \ {k})

\* C3: a returned fragment holds one route entry per edge (no record
\* overwrites another), and its routes_total is the sum of the entries' cost.
C3_OneEntryPerEdge ==
    TotalReturned =>
        /\ Cardinality(RouteEntries) = Len(edges)
        /\ Fragment[TotalKey(ret.name)] = PyInt(SumEntryCosts(RouteEntries))

\* C4: over a graph without edges, calculate_total_cost of a loaded card
\* returns the fragment holding only routes_total = 0, and process_graph
\* returns exactly that fragment for every loaded rate card.
C4_EmptyGraph ==
    edges = <<>> =>
        /\ (ret.op = "total" /\ ret.name \in Keys(rate_cards)) =>
              ret.out = Returned(ResultsKey(ret.name) :>
                                    (TotalKey(ret.name) :> PyInt(0)))
        /\ ret.op = "process" =>
              /\ ret.out.kind = "return"
              /\ DOMAIN ret.out.val = {ResultsKey(k) : k \in Keys(rate_cards)}
              /\ \A k \in Keys(rate_cards) :
                    ret.out.val[ResultsKey(k)] = (TotalKey(k) :> PyInt(0))

\* C4 witness: process_graph has returned over no edge and two rate cards.
C4_Witness ==
    /\ edges = <<>>
    /\ ret.op = "process"
    /\ Cardinality(Keys(rate_cards)) = 2

\* C5: calculate_total_cost of a name that is no key of the rate-card
\* mapping raises ValueError, hands back no mapping, and has priced no
\* route; no pool task is ever submitted for such a name.
C5_NotFoundRaises ==
    /\ (ret.op = "total" /\ ret.name \notin Keys(rate_cards)) =>
          /\ ret.out = Raise("ValueError")
          /\ ret.evals = 0
    /\ (pc = "workers" /\ caller = "total") => cur \in Keys(rate_cards)

\* C5 witness: the call failed for an unknown name over a graph with edges
\* and a loaded rate card.
C5_Witness ==
    /\ ret.op = "total"
    /\ ret.name = <<"x">>
    /\ Len(edges) > 0
    /\ Len(rate_cards) > 0

\* C6: two requests whose names normalize to the same loaded key ("R A" and
\* "r_a") are served alike: both return, or both raise the same exception.
C6_LookupNormalizes ==
    [][ ( /\ ret.op = "total"
          /\ ret'.op = "total"
          /\ NormalizeName(ret.name) \in Keys(rate_cards)
          /\ NormalizeName(ret'.name) = NormalizeName(ret.name) )
        => (ret'.out.kind = ret.out.kind /\ ret'.out.exc = ret.out.exc) ]_vars

\* C7: when process_graph returns right after calculate_total_cost(n) has
\* returned a fragment, its result holds exactly one entry per loaded rate
\* card, and the entry of n is that fragment.
C7_ProcessIsUnion ==
    [][ ( /\ TotalReturned
          /\ ret'.op = "process"
          /\ ret'.out.kind = "return" )
        => /\ DOMAIN ret'.out.val = {ResultsKey(k) : k \in Keys(rate_cards)}
           /\ ret'.out.val[ResultsKey(ret.name)] = Fragment ]_vars

\* C7 witness: process_graph returned over two rate cards and a graph with
\* edges, right after a returned calculate_total_cost.
C7_Witness ==
    /\ ret.op = "process"
    /\ ret.out.kind = "return"
    /\ ret.again
    /\ Cardinality(Keys(rate_cards)) = 2
    /\ Len(edges) >= 2

\* C8: a calculate_total_cost that completes right after one of the same
\* name has the same outcome: the same mapping, or the same exception.
C8_Idempotent ==
    [][ (ret.op = "total" /\ ret'.op = "total" /\ ret'.name = ret.name)
        => ret'.out = ret.out ]_vars

\* C8 witness: a second call of the same name has returned over two edges.
C8_Witness ==
    /\ TotalReturned
    /\ ret.again
    /\ Len(edges) >= 2

\* C9: a finished calculate_route_cost over a route that lacks "length" or
\* lacks "material" has raised, whatever the rate card.
C9_MissingAttributeRaises ==
    pc = "workers" =>
        \A i \in 1..Len(tasks) :
            (tasks[i] # Pending /\ ~WellFormed(edges[i])) => IsRaised(tasks[i])

\* C10: process_graph raises nothing and always hands back a mapping.
C10_ProcessReturnsMapping ==
    ret.op = "process" => ret.out.kind = "return"

RawKey(i) == NormalizeName(raw_cards[i]["name"][2])

\* The last record of the raw list whose name normalizes to key.
LastWithKey(key) ==
    raw_cards[CHOOSE i \in 1..Len(raw_cards) :
                 /\ RawKey(i) = key
                 /\ \A j \in 1..Len(raw_cards) : RawKey(j) = key => j <= i]

\* C11: the loaded mapping holds exactly one entry per normalized name of the
\* raw list, the entry of a key being the last raw record whose name
\* normalizes to it; and normalizing a normalized name changes nothing.
C11_LastWriteWins ==
    /\ Keys(rate_cards) = {RawKey(i) : i \in 1..Len(raw_cards)}
    /\ \A key \in Keys(rate_cards) :
          /\ Cardinality({k \in 1..Len(rate_cards) : rate_cards[k][1] = key}) = 1
          /\ Lookup(rate_cards, key) = LastWithKey(key)
    /\ \A name \in ReqNames \cup {raw_cards[i]["name"][2] : i \in 1..Len(raw_cards)} :
          NormalizeName(NormalizeName(name)) = NormalizeName(name)

\* C11 witness: two raw records with different names and prices were loaded
\* under one key, and a call under that key has returned a positive total
\* priced by the second record.
C11_Witness ==
    /\ Len(raw_cards) = 2
    /\ raw_cards[1]["name"] # raw_cards[2]["name"]
    /\ RawKey(1) = RawKey(2)
    /\ Len(rate_cards) = 1
    /\ TotalReturned
    /\ ret.name = RawKey(1)
    /\ Fragment[TotalKey(ret.name)] = PyInt(SumFormulaCost(raw_cards[2], Len(edges)))
    /\ Fragment[TotalKey(ret.name)] # PyInt(SumFormulaCost(raw_cards[1], Len(edges)))

Malformed == \E i \in 1..Len(edges) : ~WellFormed(edges[i])

\* C12: over a graph with an edge that lacks "length" or "material", a
\* completed calculate_total_cost of a loaded rate card has raised and handed
\* back no mapping, wherever the edge stands in the edge order.
C12_MalformedEdgeAborts ==
    (ret.op = "total" /\ ret.name \in Keys(rate_cards) /\ Malformed)
        => (ret.out.kind = "raise" /\ ret.out.val = EmptyDict)

\* C12 witness: the call raised over three edges of which the first two are
\* well formed and were priced, and the last has no material.
C12_Witness ==
    /\ ret.op = "total"
    /\ ret.out = Raise("KeyError")
    /\ Len(edges) = 3
    /\ WellFormed(edges[1]) /\ WellFormed(edges[2])
    /\ "material" \notin DOMAIN edges[3][3]
    /\ ret.evals = 6

\* The route costs of the sequential pass (lines 265-267) of the call in
\* flight, one per route of get_routes().
PassCosts ==
    [i \in 1..Len(edges) |->
        calculate_route_cost(nodes, Lookup(rate_cards, cur), edges[i])]

\* C13: whatever the order in which the pool tasks finish,
\* calculate_total_cost hands its outcome over only when every task is done,
\* and the routes_total of a returned result is the sum of the route costs
\* that the sequential pass computes over the same edges.
C13_TotalAfterAllWorkers ==
    [][(pc = "workers" /\ caller = "total" /\ pc' = "idle")
        => /\ AllDone
           /\ ret'.out.kind = "return"
                => ret'.out.val[ResultsKey(cur)][TotalKey(cur)] = PySum(PassCosts)]_vars

\* A call over two routes or more returned a positive total after a later
\* route's task had finished before an earlier one's.
C13_Witness ==
    /\ pc = "idle"
    /\ ret.op = "total"
    /\ ret.out.kind = "return"
    /\ out_of_order
    /\ Len(edges) >= 2
    /\ Fragment[TotalKey(ret.name)][2] > 0

\* The mutable mappings the calculator was constructed with: the attribute
\* mappings of the edges and of the nodes, and the rate-card records.
InputMappings ==
    {edges[i][3] : i \in 1..Len(edges)}
        \cup {nodes[n] : n \in DOMAIN nodes}
        \cup {rate_cards[k][2] : k \in 1..Len(rate_cards)}

\* A route entry is a mapping created by the call: a length, a material and
\* a cost, each an immutable scalar, and none of the input mappings.
FreshEntry(entry) ==
    /\ DOMAIN entry = {"length", "material", "cost"}
    /\ entry \notin InputMappings
    /\ entry["length"] \in Nat
    /\ entry["material"] \in {e[3]["material"] : e \in {x \in EdgePool : WellFormed(x)}}
    /\ IsInt(entry["cost"])

\* Every fragment of a returned result holds fresh entries and a scalar total.
FreshResult(val) ==
    \A rk \in DOMAIN val :
        \A k \in DOMAIN val[rk] :
            IF k = rk \o "_routes_total"
            THEN IsInt(val[rk][k])
            ELSE FreshEntry(val[rk][k])

NonNegative(v) == IsInt(v) /\ v[2] >= 0

\* C15: while the pool tasks of a call run, get_node_price gives a
\* non-negative number for the type of each end of every route, and every
\* finished task over a route that has a length holds a non-negative number;
\* the routes_total of every returned result is a non-negative number.
C15_NonNegativeCosts ==
    /\ pc = "workers" =>
          \A i \in 1..Len(tasks) :
              (tasks[i] # Pending /\ "length" \in DOMAIN edges[i][3])
              => /\ NonNegative(get_node_price(Lookup(rate_cards, cur),
                                     get_node_type(nodes, edges[i][1])))
                 /\ NonNegative(get_node_price(Lookup(rate_cards, cur),
                                     get_node_type(nodes, edges[i][2])))
                 /\ NonNegative(tasks[i])
    /\ TotalReturned => NonNegative(Fragment[TotalKey(ret.name)])

=============================================================================
